---- MODULE Spec2Model ----
(***************************************************************************)
(* AdvancedMapComponent (src/src/app/advanced-map/advanced-map.component.ts)*)
(* as a state machine.  The component's fields, the HTTP requests in       *)
(* flight, the RxJS timers and the debounce pipeline are the state; every  *)
(* handler (lifecycle hook, DOM event, HTTP completion, timer tick) is one *)
(* action.  Handlers are written as operators from a component record to a *)
(* component record, so that a handler calling another method is the       *)
(* composition of the two operators, in the order of the source.           *)
(***************************************************************************)
EXTENDS Integers, Sequences, FiniteSets, TLC

VARIABLES
    phase,                \* "constructed" | "active" (after ngOnInit) | "destroyed" (after ngOnDestroy)
    map,                  \* this.map: "null" | "live" | "removed" (map.remove() leaves the field set)
    center,               \* the map widget's center <<lng, lat>>
    markers,              \* this.markers, the markers added to the map
    loadHandlers,         \* number of map.on("load") handlers registered by setupClustering
    searchQuery,          \* this.searchQuery
    location,             \* this.location: <<>> (null) or <<Location>>
    restaurants,          \* this.restaurants
    loading,              \* this.loading
    error,                \* this.error
    isOffline,            \* this.isOffline
    refreshSubscription,  \* this.refreshSubscription: <<>> (null) or <<timer id>>
    timers,               \* the running timer(30000, 30000) subscriptions: {[id, age]}
    inflight,             \* HTTP requests sent and not yet completed, in the order sent
    newestPending,        \* the request sent last is still in flight (history)
    debounce,             \* debounceTime's pending event: <<>> or <<event>>
    lastEmitted           \* distinctUntilChanged's previous item: <<>> or <<event>>

vars == <<phase, map, center, markers, loadHandlers, searchQuery, location,
          restaurants, loading, error, isOffline, refreshSubscription, timers,
          inflight, newestPending, debounce, lastEmitted>>

----------------------------------------------------------------------------
(* Bounds of the model *)

\* HTTP requests in flight at a time
MaxInFlight == 2
\* largest amount of time (ms) that passes in one Advance step
TimeStep == 15000
\* map.on("load") handlers registered in a behaviour of RenderSpec
MaxLoadHandlers == 2

(* Program constants *)

\* timer(30000, 30000)
RefreshInterval == 30000
\* this.restaurants.length > 20
ClusterThreshold == 20

NoError == "null"
GeocodeFailedMsg == "Failed to fetch location. Please try again."
NoResultsMsg == "No results found for this location"
PoiFailedMsg == "Failed to fetch restaurants. Please try again."

\* searchQuery = "Paris"; a query is a sequence of characters, "P" abbreviating Paris
InitialQuery == <<"P">>
\* what the user can type into the search input
Queries == { <<" ">>, <<"P">> }

\* center: [2.3522, 48.8566], in units of 1e-4 degree
InitialCenter == <<23522, 488566>>
\* where the user can pan the map to
PanTargets == { <<124964, 419028>> }

\* Number.parseFloat on the coordinate strings the geocoder returns (1e-4 degree)
ParseFloat(str) ==
    CASE str = "48.8566" -> 488566
      [] str = "2.3522"  -> 23522

\* the geocoder's answers data[0]
GeoPlaces ==
    { [display_name |-> "Paris, France", lat |-> "48.8566", lon |-> "2.3522"] }

\* bodies of a geocode response: [] or [place]
GeoBodies == { <<>> } \cup { <<p>> : p \in GeoPlaces }

\* interface Restaurant; tags.name is optional: <<>> or <<name>>
Restaurant(i) ==
    [id |-> i, lat |-> 488000 + i, lon |-> 23000 + i,
     tags |-> [name |-> IF i % 2 = 1 THEN <<"Chez">> ELSE <<>>, amenity |-> "restaurant"]]

\* bodies of an Overpass response: data.elements is undefined (<<>>) or an array (<<array>>)
PoiBodies ==
    { [elements |-> <<>>],
      [elements |-> << <<Restaurant(1)>> >>],
      [elements |-> << <<Restaurant(2), Restaurant(3)>> >>] }

\* a POI set of n restaurants
RestaurantSeq(n) == [i \in 1..n |-> Restaurant(i)]

\* bodies of an Overpass response whose POI count is at the clustering threshold
\* and one above it
ThresholdPoiBodies ==
    { [elements |-> << RestaurantSeq(ClusterThreshold) >>],
      [elements |-> << RestaurantSeq(ClusterThreshold + 1) >>] }

\* String.prototype.trim on a sequence of characters
RECURSIVE TrimStart(_)
TrimStart(q) == IF q # <<>> /\ Head(q) = " " THEN TrimStart(Tail(q)) ELSE q
RECURSIVE TrimEnd(_)
TrimEnd(q) == IF q # <<>> /\ q[Len(q)] = " " THEN TrimEnd(SubSeq(q, 1, Len(q) - 1)) ELSE q
Trim(q) == TrimEnd(TrimStart(q))

----------------------------------------------------------------------------
(* The component as a record, and its write-back *)

Cur ==
    [phase |-> phase, map |-> map, center |-> center, markers |-> markers,
     loadHandlers |-> loadHandlers, searchQuery |-> searchQuery,
     location |-> location, restaurants |-> restaurants, loading |-> loading,
     error |-> error, isOffline |-> isOffline,
     refreshSubscription |-> refreshSubscription, timers |-> timers,
     inflight |-> inflight, newestPending |-> newestPending, debounce |-> debounce,
     lastEmitted |-> lastEmitted]

Commit(s) ==
    /\ phase' = s.phase
    /\ map' = s.map
    /\ center' = s.center
    /\ markers' = s.markers
    /\ loadHandlers' = s.loadHandlers
    /\ searchQuery' = s.searchQuery
    /\ location' = s.location
    /\ restaurants' = s.restaurants
    /\ loading' = s.loading
    /\ error' = s.error
    /\ isOffline' = s.isOffline
    /\ refreshSubscription' = s.refreshSubscription
    /\ timers' = s.timers
    /\ inflight' = s.inflight
    /\ newestPending' = s.newestPending
    /\ debounce' = s.debounce
    /\ lastEmitted' = s.lastEmitted

----------------------------------------------------------------------------
(* HttpClient.get(...).subscribe(...): the request is sent; its completion  *)
(* is a later action.  `byTimer` records, for the properties only, that the *)
(* refresh timer's callback sent the request: the code passes no such value.*)

Request(kind, byTimer, query, lat, lon) ==
    [kind |-> kind, byTimer |-> byTimer, query |-> query, lat |-> lat, lon |-> lon]

httpGet(s, req) ==
    [s EXCEPT !.inflight = Append(@, req), !.newestPending = TRUE]

\* the i-th request in flight completes and leaves the requests in flight
RemoveAt(seq, i) == SubSeq(seq, 1, i - 1) \o SubSeq(seq, i + 1, Len(seq))

completed(s, i) ==
    [s EXCEPT !.inflight = RemoveAt(@, i),
              !.newestPending = @ /\ i # Len(s.inflight)]

----------------------------------------------------------------------------
(* The refresh timer *)

\* Subscription.unsubscribe() of timer t: a no-op when t has already ended
unsubscribe(s, t) == [s EXCEPT !.timers = { x \in @ : x.id # t }]

\* a new Subscription object: distinct from the running timers
NewTimerId(s) ==
    CHOOSE i \in 1..(Cardinality(s.timers) + 1) : \A x \in s.timers : x.id # i

\* timer(30000, 30000).pipe(takeUntil(this.destroy$)).subscribe(...): takeUntil ends
\* the timer when destroy$ emits; a destroy$ that has already completed emits
\* nothing, so a timer subscribed after ngOnDestroy keeps running.
subscribeTimer(s) ==
    LET t == NewTimerId(s)
    IN [s EXCEPT !.timers = @ \cup { [id |-> t, age |-> 0] },
                 !.refreshSubscription = <<t>>]

\* setupAutoRefresh without the unsubscribe of the previous timer
setupAutoRefresh_NoCancel(s) == subscribeTimer(s)

setupAutoRefresh(s) ==
    LET s1 == IF s.refreshSubscription # <<>>
              THEN unsubscribe(s, s.refreshSubscription[1])
              ELSE s
    IN subscribeTimer(s1)

----------------------------------------------------------------------------
(* Markers *)

centerMarker(loc) ==
    [color |-> "#FF0000",
     lngLat |-> <<ParseFloat(loc.lon), ParseFloat(loc.lat)>>,
     popup |-> loc.display_name]

restaurantMarker(r) ==
    [color |-> "#4285F4",
     lngLat |-> <<r.lon, r.lat>>,
     popup |-> IF r.tags.name = <<>> THEN "Unnamed Restaurant" ELSE r.tags.name[1]]

setupClustering(s) ==
    IF s.map = "null" THEN s ELSE [s EXCEPT !.loadHandlers = @ + 1]

updateMapMarkers(s) ==
    IF s.map = "null" \/ s.location = <<>>
    THEN s
    ELSE LET s1 == [s EXCEPT !.markers =
                        <<centerMarker(s.location[1])>> \o
                        [i \in 1..Len(s.restaurants) |-> restaurantMarker(s.restaurants[i])]]
         IN IF Len(s1.restaurants) > ClusterThreshold THEN setupClustering(s1) ELSE s1

updateMapCenter(s, lon, lat) ==
    IF s.map # "null" THEN [s EXCEPT !.center = <<lon, lat>>] ELSE s

----------------------------------------------------------------------------
(* POI fetch *)

\* fetchRestaurantsForCoordinates without the isOffline guard
fetchRestaurantsForCoordinates_NoGuard(s, lat, lon, byTimer) ==
    httpGet([s EXCEPT !.loading = TRUE], Request("poi", byTimer, <<>>, lat, lon))

fetchRestaurantsForCoordinates(s, lat, lon, byTimer) ==
    IF s.isOffline
    THEN s
    ELSE httpGet([s EXCEPT !.loading = TRUE], Request("poi", byTimer, <<>>, lat, lon))

\* data.elements || []
OrEmpty(elements) == IF elements = <<>> THEN <<>> ELSE elements[1]

\* catchError of the POI request: the body that replaces the failed response
poiCatchError(s) == [s EXCEPT !.error = PoiFailedMsg]
PoiFallbackBody == [elements |-> << <<>> >>]

\* the subscribe callback of the POI request
poiNext(s, data) ==
    LET s1 == [s EXCEPT !.restaurants = OrEmpty(data.elements)]
        s2 == updateMapMarkers(s1)
        s3 == [s2 EXCEPT !.loading = FALSE]
    IN setupAutoRefresh(s3)

----------------------------------------------------------------------------
(* Search *)

\* searchLocation with a guard that tests the query without trimming it
searchLocation_NoTrim(s, query) ==
    IF query = <<>> \/ s.isOffline
    THEN s
    ELSE httpGet([s EXCEPT !.loading = TRUE, !.error = NoError],
                 Request("geocode", FALSE, query, 0, 0))

searchLocation(s, query) ==
    IF Trim(query) = <<>> \/ s.isOffline
    THEN s
    ELSE httpGet([s EXCEPT !.loading = TRUE, !.error = NoError],
                 Request("geocode", FALSE, query, 0, 0))

\* catchError of the geocode request: the body that replaces the failed response
geocodeCatchError(s) == [s EXCEPT !.error = GeocodeFailedMsg]
GeocodeFallbackBody == <<>>

\* the subscribe callback without the assignment location = null of the empty case
geocodeNext_KeepLocation(s, data) ==
    IF Len(data) = 0
    THEN [s EXCEPT !.error = NoResultsMsg, !.loading = FALSE]
    ELSE LET s1 == [s EXCEPT !.location =
                        << [display_name |-> data[1].display_name,
                            lat |-> data[1].lat,
                            lon |-> data[1].lon] >>]
             loc == s1.location[1]
             s2 == updateMapCenter(s1, ParseFloat(loc.lon), ParseFloat(loc.lat))
             s3 == fetchRestaurantsForCoordinates(
                       s2, ParseFloat(loc.lat), ParseFloat(loc.lon), FALSE)
         IN [s3 EXCEPT !.loading = FALSE]

\* the subscribe callback without the call of updateMapCenter
geocodeNext_NoRecenter(s, data) ==
    IF Len(data) = 0
    THEN [s EXCEPT !.error = NoResultsMsg, !.location = <<>>, !.loading = FALSE]
    ELSE LET s1 == [s EXCEPT !.location =
                        << [display_name |-> data[1].display_name,
                            lat |-> data[1].lat,
                            lon |-> data[1].lon] >>]
             loc == s1.location[1]
             s3 == fetchRestaurantsForCoordinates(
                       s1, ParseFloat(loc.lat), ParseFloat(loc.lon), FALSE)
         IN [s3 EXCEPT !.loading = FALSE]

\* the subscribe callback of the geocode request
geocodeNext(s, data) ==
    IF Len(data) = 0
    THEN [s EXCEPT !.error = NoResultsMsg, !.location = <<>>, !.loading = FALSE]
    ELSE LET s1 == [s EXCEPT !.location =
                        << [display_name |-> data[1].display_name,
                            lat |-> data[1].lat,
                            lon |-> data[1].lon] >>]
             loc == s1.location[1]
             s2 == updateMapCenter(s1, ParseFloat(loc.lon), ParseFloat(loc.lat))
             s3 == fetchRestaurantsForCoordinates(
                       s2, ParseFloat(loc.lat), ParseFloat(loc.lon), FALSE)
         IN [s3 EXCEPT !.loading = FALSE]

----------------------------------------------------------------------------
(* The search input pipeline: fromEvent(input).pipe(debounceTime(300),      *)
(* distinctUntilChanged(), takeUntil(destroy$)).  The items of the stream   *)
(* are the DOM Event objects: `id` is the object's identity, `value` the    *)
(* text of the input when the event was dispatched.  Identities are named   *)
(* relative to distinctUntilChanged: the object it holds is HeldId, every   *)
(* other Event object is FreshId.                                           *)

HeldId == "held"
FreshId == "fresh"

\* fromEvent hands every dispatch a new Event object
NewEventId(s) == FreshId

\* distinctUntilChanged() with no comparator: a === b on the items
SameItem(a, b) == a.id = b.id

DistinctPasses(s, e) == s.lastEmitted = <<>> \/ ~SameItem(s.lastEmitted[1], e)

\* an input event: the input's text becomes searchQuery (the two-way binding
\* of the template), and debounceTime restarts its 300 ms wait with the new event
onInput(s, q) ==
    [s EXCEPT !.searchQuery = q,
              !.debounce = << [id |-> NewEventId(s), value |-> q] >>]

\* 300 ms of silence have passed: debounceTime emits its pending event
debounceElapsed(s) ==
    LET e  == s.debounce[1]
        s1 == [s EXCEPT !.debounce = <<>>]
    IN IF DistinctPasses(s1, e)
       THEN searchLocation([s1 EXCEPT !.lastEmitted = << [e EXCEPT !.id = HeldId] >>],
                           s1.searchQuery)
       ELSE s1

----------------------------------------------------------------------------
(* Lifecycle *)

initMap(s) == [s EXCEPT !.map = "live", !.center = InitialCenter]

ngOnInit(s) ==
    LET s1 == initMap(s)
        s2 == [s1 EXCEPT !.phase = "active"]  \* setupOfflineDetection, setupSearch: subscribed
    IN searchLocation(s2, s2.searchQuery)

\* destroy$.next(): every takeUntil(destroy$) subscription ends
destroyNext(s) == [s EXCEPT !.phase = "destroyed", !.debounce = <<>>, !.timers = {}]

ngOnDestroy(s) ==
    LET s1 == destroyNext(s)
        s2 == IF s1.refreshSubscription # <<>>
              THEN unsubscribe(s1, s1.refreshSubscription[1])
              ELSE s1
    IN IF s2.map # "null" THEN [s2 EXCEPT !.map = "removed"] ELSE s2

\* a moveend handler that fetches only while nothing is loading
onMoveEnd_SkipWhileLoading(s) ==
    IF s.map = "null" \/ s.loading
    THEN s
    ELSE fetchRestaurantsForCoordinates(s, s.center[2], s.center[1], FALSE)

\* the moveend handler
onMoveEnd(s) ==
    IF s.map = "null"
    THEN s
    ELSE fetchRestaurantsForCoordinates(s, s.center[2], s.center[1], FALSE)

\* the timer's subscribe callback
onRefreshTick(s) ==
    IF s.location # <<>> /\ ~s.isOffline
    THEN fetchRestaurantsForCoordinates(
             s, ParseFloat(s.location[1].lat), ParseFloat(s.location[1].lon), TRUE)
    ELSE s

onSubmit(s) == searchLocation(s, s.searchQuery)

----------------------------------------------------------------------------
(* Initial state: the component as constructed *)

Init ==
    /\ phase = "constructed"
    /\ map = "null"
    /\ center = InitialCenter
    /\ markers = <<>>
    /\ loadHandlers = 0
    /\ searchQuery = InitialQuery
    /\ location = <<>>
    /\ restaurants = <<>>
    /\ loading = FALSE
    /\ error = NoError
    /\ isOffline \in BOOLEAN          \* !navigator.onLine
    /\ refreshSubscription = <<>>
    /\ timers = {}
    /\ inflight = <<>>
    /\ newestPending = FALSE
    /\ debounce = <<>>
    /\ lastEmitted = <<>>

----------------------------------------------------------------------------
(* Actions: one per handler.  A handler that can send a request runs only   *)
(* while fewer than MaxInFlight requests are in flight.                     *)

CanSend == Len(inflight) < MaxInFlight

NgOnInit ==
    /\ phase = "constructed"
    /\ Commit(ngOnInit(Cur))

NgOnDestroy ==
    /\ phase = "active"
    /\ Commit(ngOnDestroy(Cur))

\* fromEvent(window, "online"), until destroy$ emits
Online ==
    /\ phase = "active"
    /\ Commit([Cur EXCEPT !.isOffline = FALSE])

\* an offline handler that also cancels the requests in flight
Offline_Cancel ==
    /\ phase = "active"
    /\ Commit([Cur EXCEPT !.isOffline = TRUE, !.inflight = <<>>, !.newestPending = FALSE])

\* fromEvent(window, "offline"), until destroy$ emits
Offline ==
    /\ phase = "active"
    /\ Commit([Cur EXCEPT !.isOffline = TRUE])

\* the user changes the text of the search input to q
Input(q) ==
    /\ phase = "active"
    /\ q # searchQuery
    /\ Commit(onInput(Cur, q))

\* debounceTime's 300 ms wait ends
DebounceElapsed ==
    /\ phase = "active"
    /\ debounce # <<>>
    /\ CanSend
    /\ Commit(debounceElapsed(Cur))

\* the form is submitted
OnSubmit ==
    /\ phase = "active"
    /\ CanSend
    /\ Commit(onSubmit(Cur))

\* the map stops moving with its center at c: the end of a pan by the user, or
\* of the flight started by flyTo
MoveEnd(c) ==
    /\ phase = "active"
    /\ map = "live"
    /\ CanSend
    /\ Commit(onMoveEnd([Cur EXCEPT !.center = c]))

\* a running timer reaches its period and emits; timer(30000, 30000) goes on
RefreshTick(t) ==
    /\ t \in timers
    /\ t.age = RefreshInterval
    /\ CanSend
    /\ Commit(onRefreshTick([Cur EXCEPT !.timers = (@ \ {t}) \cup { [t EXCEPT !.age = 0] }]))

\* the geocoder answers the i-th request in flight with `body`
GeocodeResponse(i, body) ==
    /\ i \in DOMAIN inflight
    /\ inflight[i].kind = "geocode"
    /\ Commit(geocodeNext(completed(Cur, i), body))

\* the i-th request in flight, a geocode request, fails: catchError, then the
\* subscribe callback on what catchError returns
GeocodeError(i) ==
    /\ i \in DOMAIN inflight
    /\ inflight[i].kind = "geocode"
    /\ Commit(geocodeNext(geocodeCatchError(completed(Cur, i)), GeocodeFallbackBody))

\* Overpass answers the i-th request in flight with `body`
PoiResponse(i, body) ==
    /\ i \in DOMAIN inflight
    /\ inflight[i].kind = "poi"
    /\ Commit(poiNext(completed(Cur, i), body))

\* the i-th request in flight, a POI request, fails: catchError, then the
\* subscribe callback on what catchError returns
PoiError(i) ==
    /\ i \in DOMAIN inflight
    /\ inflight[i].kind = "poi"
    /\ Commit(poiNext(poiCatchError(completed(Cur, i)), PoiFallbackBody))

\* time passes: at most TimeStep, and no further than the next timer's period.
\* The 300 ms of debounceTime are over before any such step.
Advance ==
    /\ debounce = <<>>
    /\ \A t \in timers : t.age < RefreshInterval
    /\ LET gaps == { RefreshInterval - t.age : t \in timers } \cup { TimeStep }
           d    == CHOOSE g \in gaps : \A h \in gaps : g <= h
       IN Commit([Cur EXCEPT !.timers = { [t EXCEPT !.age = @ + d] : t \in @ }])

Next ==
    \/ NgOnInit
    \/ NgOnDestroy
    \/ Online
    \/ Offline
    \/ \E q \in Queries : Input(q)
    \/ DebounceElapsed
    \/ OnSubmit
    \/ \E c \in PanTargets \cup {center} : MoveEnd(c)
    \/ \E t \in timers : RefreshTick(t)
    \/ \E i \in DOMAIN inflight : GeocodeError(i)
    \/ \E i \in DOMAIN inflight, body \in GeoBodies : GeocodeResponse(i, body)
    \/ \E i \in DOMAIN inflight : PoiError(i)
    \/ \E i \in DOMAIN inflight, body \in PoiBodies : PoiResponse(i, body)
    \/ Advance

Spec == Init /\ [][Next]_vars

----------------------------------------------------------------------------
(* The component in front of an Overpass server that answers with POI sets  *)
(* around the clustering threshold, while the user searches and pans.  The  *)
(* handlers are those of Spec; a response is taken only while fewer than    *)
(* MaxLoadHandlers load handlers are registered.                            *)

ThresholdPoiResponse(i, body) ==
    /\ loadHandlers < MaxLoadHandlers
    /\ PoiResponse(i, body)

RenderNext ==
    \/ NgOnInit
    \/ OnSubmit
    \/ \E c \in PanTargets \cup {center} : MoveEnd(c)
    \/ \E i \in DOMAIN inflight, body \in GeoBodies : GeocodeResponse(i, body)
    \/ \E i \in DOMAIN inflight, body \in ThresholdPoiBodies : ThresholdPoiResponse(i, body)

RenderSpec == Init /\ [][RenderNext]_vars

----------------------------------------------------------------------------
(* Vocabulary of the properties *)

\* the i-th request in flight is the request sent last
IsNewest(i) == newestPending /\ i = Len(inflight)

\* this step sends no request: the requests in flight stay, or one of them leaves
NoRequestSent ==
    \/ inflight' = inflight
    \/ \E i \in DOMAIN inflight : inflight' = RemoveAt(inflight, i)

\* this step is the completion, with a body or with a failure, of the i-th
\* request (the first two conjuncts follow from the third)
PoiCompletion(i) ==
    /\ inflight[i].kind = "poi"
    /\ inflight' = RemoveAt(inflight, i)
    /\ (PoiError(i) \/ \E body \in PoiBodies : PoiResponse(i, body))

\* a POI request leaves the requests in flight: only PoiResponse and PoiError
\* take one away, and each of their steps takes exactly one
PoiFetchCompletes ==
    \E i \in DOMAIN inflight :
        inflight[i].kind = "poi" /\ inflight' = RemoveAt(inflight, i)

GeocodeCompletion(i) ==
    /\ inflight[i].kind = "geocode"
    /\ Len(inflight') <= Len(inflight)
    /\ (GeocodeError(i) \/ \E body \in GeoBodies : GeocodeResponse(i, body))

\* section 4.5 of the specification: the markers of a location and a POI set
RenderOf(loc, pois) ==
    (IF loc = <<>> THEN <<>> ELSE <<centerMarker(loc[1])>>) \o
    [i \in 1..Len(pois) |-> restaurantMarker(pois[i])]

----------------------------------------------------------------------------
(* Properties *)

\* the markers on the map are those of the current location and POI set
Rendered == markers = RenderOf(location, restaurants)

\* C1: a POI response is applied only if it answers the request sent last; the
\* response to an earlier request is discarded: it leaves restaurants, and the
\* markers rendered for them, as they were.
C1_OnlyLatestPoiApplied ==
    [][\A i \in DOMAIN inflight :
          (PoiCompletion(i) /\ ~IsNewest(i)) =>
              /\ restaurants' = restaurants
              /\ Rendered => markers' = markers]_vars

\* C2: a geocode response that does not answer the request sent last changes
\* neither location nor error and sends no POI request.
C2_StaleGeocodeDiscarded ==
    [][\A i \in DOMAIN inflight :
          (GeocodeCompletion(i) /\ ~IsNewest(i)) =>
              (location' = location /\ error' = error /\ NoRequestSent)]_vars

\* C3: while isOffline is true no step sends a geocode or POI request, whatever
\* the handler that runs.
C3_OfflineSendsNothing == [][isOffline => NoRequestSent]_vars

\* C3 witness: a geocode success was applied while offline: the location is set,
\* yet no POI fetch is in flight and none has ever completed.
C3_Witness ==
    /\ isOffline
    /\ phase = "active"
    /\ location # <<>>
    /\ inflight = <<>>
    /\ refreshSubscription = <<>>

\* C4: after ngOnDestroy no refresh timer runs and no request is sent again.
C4_QuietAfterTeardown ==
    [][phase' = "destroyed" => (timers' = {} /\ NoRequestSent)]_vars

\* C5: a failed POI fetch sets the POI error and clears loading, and leaves
\* restaurants, and the markers rendered for them, as they were.
C5_PoiFailureKeepsPois ==
    [][\A i \in DOMAIN inflight :
          PoiError(i) =>
              /\ error' = PoiFailedMsg
              /\ loading' = FALSE
              /\ restaurants' = restaurants
              /\ Rendered => markers' = markers]_vars

\* C6: a failed geocode request ends with the geocode-failed error, keeps the
\* location and sends no POI request.
C6_GeocodeFailureReported ==
    [][\A i \in DOMAIN inflight :
          GeocodeError(i) =>
              /\ error' = GeocodeFailedMsg
              /\ location' = location
              /\ NoRequestSent]_vars

\* C7: at most one refresh timer runs, and every completion of a POI fetch
\* leaves exactly one timer, the one refreshSubscription refers to, at the start
\* of its 30 s period.
C7_OneFreshTimer ==
    [][/\ Cardinality(timers') <= 1
       /\ PoiFetchCompletes =>
             /\ refreshSubscription' # <<>>
             /\ timers' = { [id |-> refreshSubscription'[1], age |-> 0] }]_vars

\* C7 witness: a POI fetch completed while a timer was running, and a fresh one
\* runs now.  A fetch started by the timer is in flight, so a timer has ticked;
\* loading is false although that tick set it, so a request completed after the
\* tick; the location is set and nothing else is in flight, so that request was
\* a POI fetch (a geocode success would have left its own POI fetch in flight).
C7_Witness ==
    /\ phase = "active"
    /\ Len(inflight) = 1
    /\ inflight[1].byTimer
    /\ ~loading
    /\ location # <<>>
    /\ timers = { [id |-> 1, age |-> 0] }

\* C8: at most one POI fetch started by the refresh timer is in flight (stated
\* of the live component, before ngOnDestroy).
C8_NoOverlappingRefresh ==
    phase = "active" =>
        Cardinality({ i \in DOMAIN inflight : inflight[i].byTimer }) <= 1

\* C9: when the debounce wait ends, the query is committed (a non-blank query,
\* online, is searched for) unless it equals the query committed before, and
\* then nothing is committed.
C9_DebounceLaw ==
    [][DebounceElapsed =>
          IF lastEmitted # <<>> /\ lastEmitted[1].value = searchQuery
          THEN inflight' = inflight
          ELSE /\ lastEmitted' # <<>>
               /\ lastEmitted'[1].value = searchQuery
               /\ (Trim(searchQuery) # <<>> /\ ~isOffline) =>
                      inflight' = Append(inflight,
                                         Request("geocode", FALSE, searchQuery, 0, 0))]_vars

\* C10: the markers on the map are the markers of the current location and the
\* current POI set.
C10_MarkersFollowState ==
    map = "live" => markers = RenderOf(location, restaurants)

\* C13: in every state, the arrival of an empty result for a geocode request in
\* flight sets the no-results error, makes the location absent and sends no POI
\* request: the request leaves the requests in flight and nothing is added.
C13_EmptyResultClearsLocation ==
    \A i \in DOMAIN inflight :
        inflight[i].kind = "geocode" =>
            LET s == geocodeNext(completed(Cur, i), <<>>)
            IN /\ s.error = NoResultsMsg
               /\ s.location = <<>>
               /\ s.inflight = RemoveAt(inflight, i)

\* C13 witness: markers are on the map, so a location was rendered; the location
\* is absent now and the error is the no-results error: an empty result took the
\* location away.
C13_Witness ==
    /\ phase = "active"
    /\ markers # <<>>
    /\ location = <<>>
    /\ error = NoResultsMsg
    /\ inflight = <<>>

\* the guard of searchLocation rejects the query
BlankOrOffline == Trim(searchQuery) = <<>> \/ isOffline

\* C14: in every state of the live component, a submission with a blank query,
\* or while offline, changes nothing: no request is sent and location, POIs,
\* loading, error and the refresh timer stay as they are; a submission of a
\* non-blank query while online sends its geocode request.  (isOffline ends with
\* the online event only: C16.)
C14_RejectedSubmitIsNoOp ==
    phase = "active" =>
        IF BlankOrOffline
        THEN onSubmit(Cur) = Cur
        ELSE onSubmit(Cur).inflight =
                 Append(inflight, Request("geocode", FALSE, searchQuery, 0, 0))

\* C14 witness: the whitespace-only query went through the debounce and was
\* rejected: it is the query committed last and nothing is in flight; a
\* submission in this state is rejected in the same way.
C14_Witness ==
    /\ phase = "active"
    /\ ~isOffline
    /\ searchQuery = <<" ">>
    /\ lastEmitted # <<>>
    /\ lastEmitted[1].value = searchQuery
    /\ debounce = <<>>
    /\ inflight = <<>>
    /\ ~loading

\* C15: a viewport move, a step that takes the map's center to a pan target, is
\* a step of the moveend handler that leaves the location as it is and, when
\* online, sends a POI fetch for the new center, whatever is in flight; the
\* completion of a POI fetch leaves the location as it is.
C15_MoveFetchesAroundCenter ==
    [][/\ (center' # center /\ center' \in PanTargets) =>
              /\ \E c \in PanTargets : MoveEnd(c)
              /\ location' = location
              /\ ~isOffline =>
                     inflight' = Append(inflight,
                                        Request("poi", FALSE, <<>>, center'[2], center'[1]))
       /\ (location' # location) => ~PoiFetchCompletes]_vars

\* C15 witness: a geocode request is in flight, and behind it the POI fetch of a
\* move to a pan target.
C15_Witness ==
    /\ phase = "active"
    /\ center \in PanTargets
    /\ Len(inflight) = 2
    /\ inflight[1].kind = "geocode"
    /\ inflight[2] = Request("poi", FALSE, <<>>, center[2], center[1])

C17_NoTimerWithoutLocation ==
    (phase = "active" /\ location = <<>>) => timers = {}

\* the POI fetch a geocode success sends for place p
PoiFetchFor(p) == Request("poi", FALSE, <<>>, ParseFloat(p.lat), ParseFloat(p.lon))

\* what a search started in this state leaves behind: the searches that
\* ngOnInit, a submission and the end of the debounce wait can start
SearchStarts ==
    (IF phase = "constructed" THEN { ngOnInit(Cur) } ELSE {}) \cup
    (IF phase = "active" THEN { onSubmit(Cur) } ELSE {}) \cup
    (IF phase = "active" /\ debounce # <<>> THEN { debounceElapsed(Cur) } ELSE {})

\* C18: in every state, the arrival of a place for a geocode request in flight
\* sets the location to that place, recenters the map on it and, when online,
\* sends exactly one POI fetch, for the place's coordinates; and the start of a
\* search sends at most the geocode request, never a POI fetch.
C18_GeocodeThenPoi ==
    /\ \A i \in DOMAIN inflight :
           inflight[i].kind = "geocode" =>
               \A body \in GeoBodies \ { <<>> } :
                   LET s == geocodeNext(completed(Cur, i), body)
                   IN /\ s.location = << [display_name |-> body[1].display_name,
                                          lat |-> body[1].lat, lon |-> body[1].lon] >>
                      /\ s.center = <<ParseFloat(body[1].lon), ParseFloat(body[1].lat)>>
                      /\ s.inflight = IF isOffline
                                      THEN RemoveAt(inflight, i)
                                      ELSE Append(RemoveAt(inflight, i), PoiFetchFor(body[1]))
    /\ \A s \in SearchStarts :
           \/ s.inflight = inflight
           \/ s.inflight = Append(inflight, Request("geocode", FALSE, searchQuery, 0, 0))

\* C18 witness: the POI fetch of a move to a pan target is in flight, and behind
\* it the POI fetch for the geocoded place, with the map centered on the place
\* and loading false.  No POI fetch has completed, so loading was cleared by the
\* geocode callback; with two requests in flight at most, that callback ran in
\* the step that sent the second fetch.
C18_Witness ==
    /\ phase = "active"
    /\ ~isOffline
    /\ location # <<>>
    /\ Len(inflight) = 2
    /\ inflight[1].kind = "poi"
    /\ <<inflight[1].lon, inflight[1].lat>> \in PanTargets
    /\ inflight[2] = PoiFetchFor(location[1])
    /\ center = <<ParseFloat(location[1].lon), ParseFloat(location[1].lat)>>
    /\ ~loading
    /\ refreshSubscription = <<>>

\* C19: a POI response that is applied replaces the POI set by the set of the
\* response, and leaves loading false and the error absent.
C19_PoiSuccessClearsError ==
    [][\A i \in DOMAIN inflight :
          (inflight[i].kind = "poi" /\ Len(inflight') < Len(inflight)) =>
              \A body \in PoiBodies :
                  PoiResponse(i, body) =>
                      /\ restaurants' = OrEmpty(body.elements)
                      /\ loading' = FALSE
                      /\ error' = NoError]_vars

\* C20: while the request sent last is in flight, loading is true (stated of
\* the live component, before ngOnDestroy).
C20_LoadingWhileInFlight ==
    (phase = "active" /\ newestPending) => loading

----------------------------------------------------------------------------
(* Properties of the renderer, stated of the behaviours of RenderSpec *)

\* a POI fetch completes and its callback renders: updateMapMarkers goes past its
\* early return
RenderStep ==
    /\ PoiFetchCompletes
    /\ map # "null"
    /\ location # <<>>

\* the markers of colour c among ms
MarkersOfColor(ms, c) == { k \in DOMAIN ms : ms[k].color = c }

\* C11: a render of n POIs with n <= 20 leaves exactly one location marker and n
\* POI markers and registers no clustering; with n > 20 it activates clustering
\* and does not leave n individual POI markers.
C11_StrategyByThreshold ==
    [][RenderStep =>
          LET n == Len(restaurants')
          IN IF n <= ClusterThreshold
             THEN /\ Cardinality(MarkersOfColor(markers', "#FF0000")) = 1
                  /\ Cardinality(MarkersOfColor(markers', "#4285F4")) = n
                  /\ Len(markers') = n + 1
                  /\ loadHandlers' = loadHandlers
             ELSE /\ loadHandlers' > loadHandlers
                  /\ Cardinality(MarkersOfColor(markers', "#4285F4")) # n]_vars

\* C12: a render of the state that is already rendered leaves the markers as
\* they are and adds no map resource: no marker and no load handler.
C12_RenderIdempotent ==
    [][(RenderStep /\ Rendered /\ restaurants' = restaurants) =>
          /\ markers' = markers
          /\ loadHandlers' = loadHandlers]_vars

====
